---- MODULE Spec2Model ----
(***************************************************************************)
(* A model of src/dks/scenes.ts: the DataFetcher (progress aggregation),   *)
(* the ResourceSystem (virtual file namespace) and DKSSceneDesc.createScene *)
(* (the asset assembly pipeline).                                          *)
(*                                                                         *)
(* Conventions.  Array indices are 1-based here (index i of the code is    *)
(* i+1).  Strings that the code slices or rewrites are tuples of           *)
(* characters or tokens; paths are tuples of tokens.  A progress fraction  *)
(* k/Scale is the integer k, and an aggregate is the exact quotient        *)
(* [num, den] (den = 0 is the 0/0 of an empty task list).                  *)
(***************************************************************************)
EXTENDS Integers, Sequences, FiniteSets, TLC

VARIABLES
    files,              \* ResourceSystem.files : path -> buffer
    trace,              \* history: the operations performed, in order
    fileProgressables,  \* DataFetcher.fileProgressables
    progressMeter,      \* the progress sink: last value set, number of calls
    abortSignal,        \* TRUE once the shared AbortSignal has fired
    nFetchData,         \* history: number of DataFetcher.fetchData calls
    nOnProgress,        \* history: number of progress updates delivered
    id,                 \* DKSSceneDesc.id of the load
    server,             \* what the two phase-1 downloads deliver
    pcArc,              \* position of fetchCRG1Arc
    pcLoose,            \* position of fetchLoose
    pcMain,             \* position of createScene
    scene,              \* what createScene has built
    destroyCalls        \* number of destroy calls made on each GPU resource

rsVars == <<files, trace>>
dfVars == <<fileProgressables, progressMeter, abortSignal, nFetchData, nOnProgress>>
loadVars == <<id, server, pcArc, pcLoose, pcMain, scene>>
vars == <<files, trace, fileProgressables, progressMeter, abortSignal,
          nFetchData, nOnProgress, id, server, pcArc, pcLoose, pcMain, scene,
          destroyCalls>>

----------------------------------------------------------------------------
(* Bounds of the model. *)

MaxOps == 3         \* ResourceSystem operations in SpecRS
MaxTasks == 3       \* fetchData calls in SpecDF
MaxUpdates == 2     \* progress updates delivered
Scale == 2          \* progress fractions are 0/Scale .. Scale/Scale
MaxModels == 2      \* entries of a placement table
MaxRecords == 2     \* records of a texture bank
MaxRenderers == 2   \* sub-scene renderers added to a DKSRenderer

----------------------------------------------------------------------------
(* Generic helpers. *)

Last(s) == s[Len(s)]

RECURSIVE SeqsUpTo(_, _)
SeqsUpTo(S, n) ==
    IF n = 0 THEN {<<>>}
    ELSE LET shorter == SeqsUpTo(S, n - 1)
         IN shorter \cup {Append(s, x) : s \in {t \in shorter : Len(t) = n - 1}, x \in S}

\* The orders in which a set of keys can be enumerated.
Orders(S) ==
    {s \in [1..Cardinality(S) -> S] : \A i, j \in 1..Cardinality(S) : i # j => s[i] # s[j]}

\* JavaScript's undefined, as a buffer value.
Undefined == [kind |-> "undefined"]

\* Map.prototype.set and Map.prototype.get on a map held as a function.
MapSet(m, k, v) == [q \in (DOMAIN m) \cup {k} |-> IF q = k THEN v ELSE m[q]]
MapGet(m, k) == IF k \in DOMAIN m THEN m[k] ELSE Undefined
EmptyMap == [q \in {} |-> Undefined]

----------------------------------------------------------------------------
(* Scene identifiers and logical paths. *)

SceneId1 == <<"m", "1", "0", "_", "0", "1", "_", "0", "0", "_", "0", "0">>
SceneId2 == <<"m", "1", "2", "_", "0", "0", "_", "0", "0", "_", "0", "1">>

mtdPath == <<"mtd/Mtd.mtdbnd">>
msbPath(sceneId) == <<"/map/MapStudio/">> \o sceneId \o <<".msb">>
flverPath1 == <<"/map/m10_01_00_00/m2000B1A10.flver.dcx">>
flverPath2 == <<"/map/m10_01_00_00/m2001B1A10.flver.dcx">>

----------------------------------------------------------------------------
(* ResourceSystem. *)

Mutant_mountFile(fs, fileName, buffer) ==
    IF fileName \in DOMAIN fs THEN fs ELSE MapSet(fs, fileName, buffer)

mountFile(fs, fileName, buffer) == MapSet(fs, fileName, buffer)

\* The loop of mountCRG1 over filenames = Object.keys(n.Files), from index i.
RECURSIVE mountCRG1Loop(_, _, _, _)
mountCRG1Loop(fs, n, filenames, i) ==
    IF i > Len(filenames) THEN fs
    ELSE mountCRG1Loop(MapSet(fs, filenames[i], n[filenames[i]]), n, filenames, i + 1)

Mutant_mountCRG1(fs, n, filenames) ==
    mountCRG1Loop(fs, n, SubSeq(filenames, 1, Len(filenames) - 1), 1)

\* mountCRG1 that replaces the namespace by the manifest.
Mutant_mountCRG1_replace(fs, n, filenames) == mountCRG1Loop(EmptyMap, n, filenames, 1)

mountCRG1(fs, n, filenames) == mountCRG1Loop(fs, n, filenames, 1)

lookupFile(fs, filename) == MapGet(fs, filename)

\* Inputs of the free-standing ResourceSystem specification.
RSPaths == {mtdPath, msbPath(SceneId1), flverPath1}
RSBuffers == {[kind |-> "raw", tag |-> 1], [kind |-> "raw", tag |-> 2]}
RSArcs == UNION {[D -> RSBuffers] : D \in SUBSET RSPaths}

MountFile ==
    \E p \in RSPaths, b \in RSBuffers :
        /\ Len(trace) < MaxOps
        /\ files' = mountFile(files, p, b)
        /\ trace' = Append(trace, [op |-> "mountFile", path |-> p, buffer |-> b])
        /\ UNCHANGED <<destroyCalls, dfVars, loadVars>>

MountCRG1 ==
    \E n \in RSArcs :
        \E filenames \in Orders(DOMAIN n) :
            /\ Len(trace) < MaxOps
            /\ files' = mountCRG1(files, n, filenames)
            /\ trace' = Append(trace, [op |-> "mountCRG1", arc |-> n])
            /\ UNCHANGED <<destroyCalls, dfVars, loadVars>>

LookupFile ==
    \E p \in RSPaths :
        /\ Len(trace) < MaxOps
        /\ trace' = Append(trace, [op |-> "lookupFile", path |-> p,
                                   ret |-> lookupFile(files, p)])
        /\ UNCHANGED <<destroyCalls, files, dfVars, loadVars>>

----------------------------------------------------------------------------
(* DataFetcher. *)

\* The Progressable that fetchData of ../fetch returns for a new download.
NewProgressable == [progress |-> 0, state |-> "pending", onProgress |-> FALSE]

\* The loop of calcProgress: n += fileProgressables[i].progress, from index i.
RECURSIVE calcProgressLoop(_, _, _)
calcProgressLoop(fps, i, n) ==
    IF i > Len(fps) THEN n ELSE calcProgressLoop(fps, i + 1, n + fps[i].progress)

Mutant_calcProgress_skipFirst(fps) ==
    [num |-> calcProgressLoop(fps, 2, 0), den |-> Scale * Len(fps)]

Mutant_calcProgress_skipLast(fps) ==
    [num |-> calcProgressLoop(SubSeq(fps, 1, Len(fps) - 1), 1, 0), den |-> Scale * Len(fps)]

Mutant_calcProgress_pendingOnly(fps) ==
    [num |-> calcProgressLoop(SelectSeq(fps, LAMBDA p : p.state \notin {"aborted", "rejected"}), 1, 0),
     den |-> Scale * Len(fps)]

\* n / fileProgressables.length, n a sum of fractions k/Scale.
calcProgress(fps) == [num |-> calcProgressLoop(fps, 1, 0), den |-> Scale * Len(fps)]

\* DataFetcher.setProgress: one call of progressMeter.setProgress.
setProgress(fps, meter) == [value |-> calcProgress(fps), count |-> meter.count + 1]

Mutant_fetchData(fps, meter) ==
    LET pushed == Append(fps, NewProgressable)
    IN [fps |-> [pushed EXCEPT ![Len(pushed)].onProgress = TRUE], meter |-> meter]

\* fetchData that reports before it pushes the new task.
Mutant_fetchData_reportFirst(fps, meter) ==
    LET pushed == Append(fps, NewProgressable)
    IN [fps |-> [pushed EXCEPT ![Len(pushed)].onProgress = TRUE],
        meter |-> setProgress(fps, meter)]

\* DataFetcher.fetchData: push, hook onProgress, report.
fetchData(fps, meter) ==
    LET pushed == Append(fps, NewProgressable)
        hooked == [pushed EXCEPT ![Len(pushed)].onProgress = TRUE]
    IN [fps |-> hooked, meter |-> setProgress(hooked, meter)]

\* Progressable.setProgress(f) of task i: store the fraction, call the hook.
progressEvent(fps, meter, i, f) ==
    LET updated == [fps EXCEPT ![i].progress = f]
    IN [fps |-> updated,
        meter |-> IF fps[i].onProgress THEN setProgress(updated, meter) ELSE meter]

\* The shared AbortSignal fires: every download still pending is cancelled.
abortAll(fps) ==
    [i \in 1..Len(fps) |->
        IF fps[i].state = "pending" THEN [fps[i] EXCEPT !.state = "aborted"] ELSE fps[i]]

NoMeter == [value |-> [num |-> 0, den |-> 0], count |-> 0]

FetchData ==
    /\ Len(fileProgressables) < MaxTasks
    /\ LET r == fetchData(fileProgressables, progressMeter)
       IN /\ fileProgressables' = r.fps
          /\ progressMeter' = r.meter
    /\ nFetchData' = nFetchData + 1
    /\ UNCHANGED <<destroyCalls, abortSignal, nOnProgress, rsVars, loadVars>>

OnProgress ==
    \E i \in 1..Len(fileProgressables) :
        \E f \in fileProgressables[i].progress..Scale :
            /\ fileProgressables[i].state = "pending"
            /\ nOnProgress < MaxUpdates
            /\ LET r == progressEvent(fileProgressables, progressMeter, i, f)
               IN /\ fileProgressables' = r.fps
                  /\ progressMeter' = r.meter
            /\ nOnProgress' = nOnProgress + 1
            /\ UNCHANGED <<destroyCalls, abortSignal, nFetchData, rsVars, loadVars>>

Resolve ==
    \E i \in 1..Len(fileProgressables) :
        /\ fileProgressables[i].state = "pending"
        /\ fileProgressables' = [fileProgressables EXCEPT ![i].state = "resolved"]
        /\ UNCHANGED <<destroyCalls, progressMeter, abortSignal, nFetchData, nOnProgress, rsVars, loadVars>>

Fail ==
    \E i \in 1..Len(fileProgressables) :
        /\ fileProgressables[i].state = "pending"
        /\ fileProgressables' = [fileProgressables EXCEPT ![i].state = "rejected"]
        /\ UNCHANGED <<destroyCalls, progressMeter, abortSignal, nFetchData, nOnProgress, rsVars, loadVars>>

Abort ==
    /\ ~abortSignal
    /\ abortSignal' = TRUE
    /\ fileProgressables' = abortAll(fileProgressables)
    /\ UNCHANGED <<destroyCalls, progressMeter, nFetchData, nOnProgress, rsVars, loadVars>>

----------------------------------------------------------------------------
(* The external decoders, by their contracts: each either fails (throws) or   *)
(* returns the decoded value.  A buffer is a record whose kind says what it   *)
(* holds; undefined and buffers of another kind do not decode.                *)

Failed == [ok |-> FALSE]
Decoded(v) == [ok |-> TRUE, value |-> v]

BYMLparse(buffer) == IF buffer.kind = "crg1" THEN Decoded(buffer.Files) ELSE Failed
MSBparse(buffer, sceneId) ==
    IF buffer.kind = "msb" THEN Decoded([models |-> buffer.models]) ELSE Failed
BND3parse(buffer) == IF buffer.kind = "bnd3" THEN Decoded(buffer) ELSE Failed
DCXdecompressBuffer(buffer) == IF buffer.kind = "dcx" THEN Decoded(buffer.inner) ELSE Failed
FLVERparse(buffer) == IF buffer.kind = "flver" THEN Decoded(buffer) ELSE Failed
TPFparse(buffer) ==
    IF buffer.kind = "tpf" THEN Decoded([textures |-> buffer.textures]) ELSE Failed
BHDparse(bhdBuffer, bdtBuffer) ==
    IF bhdBuffer.kind = "bhd" /\ bdtBuffer.kind = "bdt"
    THEN Decoded([fileRecords |-> bhdBuffer.fileRecords]) ELSE Failed

----------------------------------------------------------------------------
(* String operations used on texture names (names are tuples of characters). *)

TpfDcx == <<".", "t", "p", "f", ".", "d", "c", "x">>

endsWith(str, suffix) ==
    /\ Len(str) >= Len(suffix)
    /\ SubSeq(str, Len(str) - Len(suffix) + 1, Len(str)) = suffix

\* str.replace(/\\/g, ''): every backslash removed.
removeBackslashes(str) == SelectSeq(str, LAMBDA c : c # "\\")

\* str.replace(pattern, ''): the first occurrence of pattern removed.
replaceFirst(str, pattern) ==
    LET starts == {k \in 1..(Len(str) - Len(pattern) + 1) :
                      SubSeq(str, k, k + Len(pattern) - 1) = pattern}
    IN IF starts = {} THEN str
       ELSE LET k == CHOOSE x \in starts : \A y \in starts : x <= y
            IN SubSeq(str, 1, k - 1) \o SubSeq(str, k + Len(pattern), Len(str))

lowerChar(c) ==
    CASE c = "X" -> "x" [] c = "Y" -> "y" [] c = "T" -> "t" [] c = "P" -> "p"
      [] c = "F" -> "f" [] c = "D" -> "d" [] c = "C" -> "c" [] OTHER -> c
toLowerCase(str) == [k \in 1..Len(str) |-> lowerChar(str[k])]

key1Of(name) == toLowerCase(replaceFirst(removeBackslashes(name), TpfDcx))
key2Of(textureName) == toLowerCase(textureName)

----------------------------------------------------------------------------
(* createScene after the join (lines 177-209), as a run over an execution    *)
(* state: the trace so far, the exception thrown if any, and what is built.  *)

NoError == [at |-> "none"]

\* A sparse JavaScript array: its length and its elements that are set.
EmptyArray == [length |-> 0, elems |-> EmptyMap]
ArraySet(a, i, v) ==
    [length |-> IF i > a.length THEN i ELSE a.length, elems |-> MapSet(a.elems, i, v)]
ArrayGet(a, i) == MapGet(a.elems, i)

StartRun(tr) ==
    [trace |-> tr, error |-> NoError, flver |-> EmptyArray, modelHolder |-> EmptyArray,
     textureHolder |-> <<>>, sceneRenderers |-> 0, returned |-> FALSE]

Emit(st, e) == [st EXCEPT !.trace = Append(@, e)]
Throw(st, e) == [st EXCEPT !.error = e]
LookupEvent(fs, path) == [op |-> "lookupFile", path |-> path, ret |-> lookupFile(fs, path)]

mapKeyOf(sceneId) == SubSeq(sceneId, 1, 3)
bankBase(sceneId, suffix) ==
    <<"/map/">> \o mapKeyOf(sceneId) \o <<"/">> \o mapKeyOf(sceneId) \o <<suffix>>
BankSuffixes == <<"_0000", "_0001", "_0002", "_0003">>
LooseSuffix == "_9999"

\* Lines 179-184: the placement table and the material container.
decodeTables(st, fs, sceneId) ==
    LET st1 == Emit(st, LookupEvent(fs, msbPath(sceneId)))
        msb == MSBparse(lookupFile(fs, msbPath(sceneId)), sceneId)
    IN IF ~msb.ok THEN Throw(st1, [at |-> "MSB.parse"])
       ELSE LET st2 == Emit(Emit(st1, [op |-> "decode", what |-> "MSB"]),
                            LookupEvent(fs, mtdPath))
                mtdBnd == BND3parse(lookupFile(fs, mtdPath))
            IN IF ~mtdBnd.ok THEN Throw(st2, [at |-> "BND3.parse"])
               ELSE Emit(st2, [op |-> "decode", what |-> "BND3"])

\* One iteration of the loop of lines 187-194, for entry i.
resolveModel(st, fs, models, i) ==
    IF models[i].type # 0 THEN st
    ELSE LET st1 == Emit(st, LookupEvent(fs, models[i].flverPath))
             dcx == DCXdecompressBuffer(lookupFile(fs, models[i].flverPath))
         IN IF ~dcx.ok THEN Throw(st1, [at |-> "DCX.decompressBuffer", model |-> i])
            ELSE LET flver_ == FLVERparse(dcx.value)
                 IN IF ~flver_.ok THEN Throw(st1, [at |-> "FLVER.parse", model |-> i])
                    ELSE LET st2 == Emit(st1, [op |-> "decode", what |-> "FLVER", model |-> i])
                         IN IF flver_.value.batches > 0
                            THEN [st2 EXCEPT !.flver = ArraySet(@, i, flver_.value)]
                            ELSE st2

RECURSIVE resolveModels(_, _, _, _)
resolveModels(st, fs, models, i) ==
    IF st.error # NoError \/ i > Len(models) THEN st
    ELSE resolveModels(resolveModel(st, fs, models, i), fs, models, i + 1)

\* ModelHolder's constructor (lines 110-114): a FLVERData per slot that is set.
RECURSIVE newModelHolder(_, _)
newModelHolder(st, i) ==
    IF i > st.flver.length THEN st
    ELSE IF ArrayGet(st.flver, i) # Undefined
         THEN newModelHolder(
                  Emit([st EXCEPT !.modelHolder = ArraySet(@, i, ArrayGet(st.flver, i))],
                       [op |-> "new FLVERData", model |-> i]), i + 1)
         ELSE newModelHolder(st, i + 1)

\* textureHolder.addTextures(device, textures), for record rec of the container at base.
addTextures(st, base, rec, textures) ==
    Emit([st EXCEPT !.textureHolder = @ \o textures],
         [op |-> "addTextures", base |-> base, record |-> rec, textures |-> textures])

\* loadRecord with its assertions compiled out: a record that fails is skipped.
Mutant_loadRecord(st, base, r, i) ==
    IF ~endsWith(r.name, TpfDcx) THEN st
    ELSE LET tpf == TPFparse(DCXdecompressBuffer(r.buffer).value)
         IN IF Len(tpf.value.textures) # 1 THEN st
            ELSE IF key1Of(r.name) # key2Of(tpf.value.textures[1].name) THEN st
            ELSE addTextures(Emit(st, [op |-> "decode", what |-> "TPF"]), base, i,
                             tpf.value.textures)

\* loadRecord without the assertion of line 159.
Mutant_loadRecord_noNameCheck(st, base, r, i) ==
    IF ~endsWith(r.name, TpfDcx) THEN Throw(st, [at |-> "assert suffix", base |-> base, record |-> i])
    ELSE LET tpf == TPFparse(DCXdecompressBuffer(r.buffer).value)
         IN IF Len(tpf.value.textures) # 1
            THEN Throw(st, [at |-> "assert one texture", base |-> base, record |-> i])
            ELSE addTextures(Emit(st, [op |-> "decode", what |-> "TPF"]), base, i,
                             tpf.value.textures)

\* The body of the loop of loadTextureBHD (lines 152-161) for record i.
loadRecord(st, base, r, i) ==
    IF ~endsWith(r.name, TpfDcx) THEN Throw(st, [at |-> "assert suffix", base |-> base, record |-> i])
    ELSE LET dcx == DCXdecompressBuffer(r.buffer)
         IN IF ~dcx.ok THEN Throw(st, [at |-> "DCX.decompressBuffer", base |-> base, record |-> i])
            ELSE LET tpf == TPFparse(dcx.value)
                     st1 == Emit(st, [op |-> "decode", what |-> "TPF"])
                 IN IF ~tpf.ok THEN Throw(st, [at |-> "TPF.parse", base |-> base, record |-> i])
                    ELSE IF Len(tpf.value.textures) # 1
                         THEN Throw(st1, [at |-> "assert one texture", base |-> base, record |-> i])
                    ELSE IF key1Of(r.name) # key2Of(tpf.value.textures[1].name)
                         THEN Throw(st1, [at |-> "assert names", base |-> base, record |-> i])
                    ELSE addTextures(st1, base, i, tpf.value.textures)

RECURSIVE loadRecords(_, _, _, _)
loadRecords(st, base, fileRecords, i) ==
    IF st.error # NoError \/ i > Len(fileRecords) THEN st
    ELSE loadRecords(loadRecord(st, base, fileRecords[i], i), base, fileRecords, i + 1)

loadTextureBHD(st, fs, base) ==
    IF st.error # NoError THEN st
    ELSE LET st1 == Emit(Emit(st, LookupEvent(fs, base \o <<".tpfbhd">>)),
                         LookupEvent(fs, base \o <<".tpfbdt">>))
             bhd == BHDparse(lookupFile(fs, base \o <<".tpfbhd">>),
                             lookupFile(fs, base \o <<".tpfbdt">>))
         IN IF ~bhd.ok THEN Throw(st1, [at |-> "BHD.parse", base |-> base])
            ELSE loadRecords(Emit(st1, [op |-> "decode", what |-> "BHD"]), base,
                             bhd.value.fileRecords, 1)

loadTextureTPFDCX(st, fs, base) ==
    IF st.error # NoError THEN st
    ELSE LET st1 == Emit(st, LookupEvent(fs, base \o <<".tpf.dcx">>))
             dcx == DCXdecompressBuffer(lookupFile(fs, base \o <<".tpf.dcx">>))
         IN IF ~dcx.ok THEN Throw(st1, [at |-> "DCX.decompressBuffer", base |-> base])
            ELSE LET tpf == TPFparse(dcx.value)
                 IN IF ~tpf.ok THEN Throw(st1, [at |-> "TPF.parse", base |-> base])
                    ELSE addTextures(Emit(st1, [op |-> "decode", what |-> "TPF"]), base, 0,
                                     tpf.value.textures)

\* Lines 198-203: the four banks in order, then the loose container.
RECURSIVE loadBanks(_, _, _, _)
loadBanks(st, fs, sceneId, b) ==
    IF b > Len(BankSuffixes) THEN st
    ELSE loadBanks(loadTextureBHD(st, fs, bankBase(sceneId, BankSuffixes[b])), fs, sceneId, b + 1)

\* loadTextures with the loose container loaded before the banks.
Mutant_loadTextures(st, fs, sceneId) ==
    loadBanks(loadTextureTPFDCX(st, fs, bankBase(sceneId, LooseSuffix)), fs, sceneId, 1)

loadTextures(st, fs, sceneId) ==
    loadTextureTPFDCX(loadBanks(st, fs, sceneId, 1), fs, bankBase(sceneId, LooseSuffix))

\* Lines 205-209: the sub-scene renderer and the renderer that is returned.
buildRenderer(st) ==
    IF st.error # NoError THEN st
    ELSE Emit([st EXCEPT !.sceneRenderers = @ + 1, !.returned = TRUE],
              [op |-> "new MSBRenderer"])

\* afterJoin with the textures resolved before the model holder is made.
Mutant_afterJoin(tr, fs, sceneId) ==
    LET st1 == decodeTables(StartRun(tr), fs, sceneId)
    IN IF st1.error # NoError THEN st1
       ELSE LET models == MSBparse(lookupFile(fs, msbPath(sceneId)), sceneId).value.models
                st2 == resolveModels(st1, fs, models, 1)
            IN IF st2.error # NoError THEN st2
               ELSE LET st3 == loadTextures(st2, fs, sceneId)
                    IN IF st3.error # NoError THEN st3
                       ELSE buildRenderer(newModelHolder(st3, 1))

\* Lines 177-209 as a whole.
afterJoin(tr, fs, sceneId) ==
    LET st1 == decodeTables(StartRun(tr), fs, sceneId)
    IN IF st1.error # NoError THEN st1
       ELSE LET models == MSBparse(lookupFile(fs, msbPath(sceneId)), sceneId).value.models
                st2 == resolveModels(st1, fs, models, 1)
            IN IF st2.error # NoError THEN st2
               ELSE buildRenderer(loadTextures(newModelHolder(st2, 1), fs, sceneId))

----------------------------------------------------------------------------
(* createScene as a process: the call, the two downloads settling, the join. *)

SceneOf(st) ==
    [error |-> st.error, flver |-> st.flver, modelHolder |-> st.modelHolder,
     textureHolder |-> st.textureHolder, sceneRenderers |-> st.sceneRenderers,
     returned |-> st.returned]
NoScene == SceneOf(StartRun(<<>>))

ArcTask == 1      \* fetchCRG1Arc's download is registered first (line 173)
LooseTask == 2    \* fetchLoose's download second (line 174)

pathBase == <<"dks">>
arcName(sceneId) == sceneId \o <<"_arc.crg1">>

\* A canonical enumeration of a finite set, and the same reversed.
RECURSIVE SetToSeq(_)
SetToSeq(S) ==
    IF S = {} THEN <<>>
    ELSE LET x == CHOOSE y \in S : TRUE IN <<x>> \o SetToSeq(S \ {x})
Reverse(q) == [k \in 1..Len(q) |-> q[Len(q) + 1 - k]]
KeyOrders(S) == {SetToSeq(S), Reverse(SetToSeq(S))}

\* Settle as Promise.allSettled would have it: the join waits for both branches
\* and then goes on, whether or not one of them rejected.
Mutant_Settle(newArc, newLoose, fs, tr) ==
    IF pcMain = "await" /\ newArc # "await" /\ newLoose # "await" THEN
        LET st == afterJoin(tr, fs, id)
        IN /\ pcMain' = IF st.error = NoError THEN "ready" ELSE "rejected"
           /\ scene' = SceneOf(st)
           /\ trace' = st.trace
    ELSE
        /\ pcMain' = pcMain /\ scene' = scene /\ trace' = tr

\* Settle with a listener on the signal that tears a finished load down.
Mutant_Settle_abortAfterJoin(newArc, newLoose, fs, tr) ==
    IF pcMain = "ready" /\ abortSignal' THEN
        /\ pcMain' = "rejected"
        /\ scene' = [scene EXCEPT !.error = [at |-> "abort"], !.returned = FALSE]
        /\ trace' = tr
    ELSE IF pcMain # "await" THEN
        /\ pcMain' = pcMain /\ scene' = scene /\ trace' = tr
    ELSE IF newArc = "rejected" \/ newLoose = "rejected" THEN
        /\ pcMain' = "rejected"
        /\ scene' = [scene EXCEPT !.error = [at |-> "fetch"]]
        /\ trace' = tr
    ELSE IF newArc = "done" /\ newLoose = "done" THEN
        LET st == afterJoin(tr, fs, id)
        IN /\ pcMain' = IF st.error = NoError THEN "ready" ELSE "rejected"
           /\ scene' = SceneOf(st)
           /\ trace' = st.trace
    ELSE
        /\ pcMain' = pcMain /\ scene' = scene /\ trace' = tr

\* Promise.all and the await of line 172, run when a branch has settled with
\* the branches at newArc and newLoose, the namespace fs and the trace tr.
Settle(newArc, newLoose, fs, tr) ==
    IF pcMain # "await" THEN
        /\ pcMain' = pcMain /\ scene' = scene /\ trace' = tr
    ELSE IF newArc = "rejected" \/ newLoose = "rejected" THEN
        /\ pcMain' = "rejected"
        /\ scene' = [scene EXCEPT !.error = [at |-> "fetch"]]
        /\ trace' = tr
    ELSE IF newArc = "done" /\ newLoose = "done" THEN
        LET st == afterJoin(tr, fs, id)
        IN /\ pcMain' = IF st.error = NoError THEN "ready" ELSE "rejected"
           /\ scene' = SceneOf(st)
           /\ trace' = st.trace
    ELSE
        /\ pcMain' = pcMain /\ scene' = scene /\ trace' = tr

\* createScene up to its await: both downloads are requested (lines 166-175).
CreateScene ==
    /\ pcMain = "idle"
    /\ LET r1 == fetchData(fileProgressables, progressMeter)
           r2 == fetchData(r1.fps, r1.meter)
       IN /\ fileProgressables' = r2.fps
          /\ progressMeter' = r2.meter
    /\ nFetchData' = nFetchData + 2
    /\ trace' = trace \o << [op |-> "fetchData", path |-> pathBase \o <<"/">> \o arcName(id)],
                            [op |-> "fetchData", path |-> pathBase \o <<"/">> \o mtdPath] >>
    /\ pcArc' = "await" /\ pcLoose' = "await" /\ pcMain' = "await"
    /\ UNCHANGED <<destroyCalls, files, abortSignal, nOnProgress, id, server, scene>>

\* The archive download resolves: fetchCRG1Arc continues (lines 127-128).
ArcLoaded ==
    /\ pcArc = "await"
    /\ fileProgressables[ArcTask].state = "pending"
    /\ fileProgressables' = [fileProgressables EXCEPT ![ArcTask].state = "resolved"]
    /\ LET crg1Arc == BYMLparse(server.arc)
       IN IF ~crg1Arc.ok
          THEN /\ pcArc' = "rejected"
               /\ files' = files
               /\ Settle("rejected", pcLoose, files, trace)
          ELSE \E filenames \in KeyOrders(DOMAIN crg1Arc.value) :
               /\ pcArc' = "done"
               /\ files' = mountCRG1(files, crg1Arc.value, filenames)
               /\ Settle("done", pcLoose, mountCRG1(files, crg1Arc.value, filenames),
                         trace \o << [op |-> "decode", what |-> "BYML"],
                                     [op |-> "mountCRG1", arc |-> crg1Arc.value] >>)
    /\ UNCHANGED <<destroyCalls, progressMeter, abortSignal, nFetchData, nOnProgress, id, server, pcLoose>>

\* The material-definition download resolves: fetchLoose continues (line 133).
LooseLoaded ==
    /\ pcLoose = "await"
    /\ fileProgressables[LooseTask].state = "pending"
    /\ fileProgressables' = [fileProgressables EXCEPT ![LooseTask].state = "resolved"]
    /\ pcLoose' = "done"
    /\ files' = mountFile(files, mtdPath, server.mtd)
    /\ Settle(pcArc, "done", mountFile(files, mtdPath, server.mtd),
              Append(trace, [op |-> "mountFile", path |-> mtdPath, buffer |-> server.mtd]))
    /\ UNCHANGED <<destroyCalls, progressMeter, abortSignal, nFetchData, nOnProgress, id, server, pcArc>>

\* A download fails in transport: its branch, and with it the join, rejects.
FetchError ==
    \E i \in {ArcTask, LooseTask} :
        /\ pcMain # "idle"
        /\ fileProgressables[i].state = "pending"
        /\ fileProgressables' = [fileProgressables EXCEPT ![i].state = "rejected"]
        /\ pcArc' = IF i = ArcTask THEN "rejected" ELSE pcArc
        /\ pcLoose' = IF i = LooseTask THEN "rejected" ELSE pcLoose
        /\ Settle(IF i = ArcTask THEN "rejected" ELSE pcArc,
                  IF i = LooseTask THEN "rejected" ELSE pcLoose, files, trace)
        /\ UNCHANGED <<destroyCalls, files, progressMeter, abortSignal, nFetchData, nOnProgress, id, server>>

\* The abort signal of the load fires: pending downloads are cancelled.
AbortLoad ==
    /\ pcMain # "idle"
    /\ ~abortSignal
    /\ abortSignal' = TRUE
    /\ fileProgressables' = abortAll(fileProgressables)
    /\ pcArc' = IF pcArc = "await" THEN "rejected" ELSE pcArc
    /\ pcLoose' = IF pcLoose = "await" THEN "rejected" ELSE pcLoose
    /\ Settle(IF pcArc = "await" THEN "rejected" ELSE pcArc,
              IF pcLoose = "await" THEN "rejected" ELSE pcLoose, files, trace)
    /\ UNCHANGED <<destroyCalls, files, progressMeter, nFetchData, nOnProgress, id, server>>

----------------------------------------------------------------------------
(* The assets a load can be given. *)

Garbage == [kind |-> "garbage"]
MsbBuffer(models) == [kind |-> "msb", models |-> models]
FlverFile(batches, tag) ==
    [kind |-> "dcx", inner |-> [kind |-> "flver", batches |-> batches, tag |-> tag]]
TpfDcxFile(textures) == [kind |-> "dcx", inner |-> [kind |-> "tpf", textures |-> textures]]
Texture(name) == [name |-> name]
TexRecord(name, textures) == [name |-> name, buffer |-> TpfDcxFile(textures)]

RecOk == TexRecord(<<"X">> \o TpfDcx, <<Texture(<<"x">>)>>)
RecOkPath == TexRecord(<<"\\", "Y", "\\">> \o TpfDcx, <<Texture(<<"Y">>)>>)
RecBadSuffix == TexRecord(<<"X", ".", "t", "p", "f">>, <<Texture(<<"x">>)>>)
RecTwoTextures == TexRecord(<<"X">> \o TpfDcx, <<Texture(<<"x">>), Texture(<<"y">>)>>)
RecMismatch == TexRecord(<<"X">> \o TpfDcx, <<Texture(<<"y">>)>>)
BadRecords == {RecBadSuffix, RecTwoTextures, RecMismatch}

MapOfPairs(pairs) ==
    [q \in {x[1] : x \in pairs} |-> (CHOOSE x \in pairs : x[1] = q)[2]]

AbsentBank == [present |-> FALSE, records |-> <<>>]
Bank(records) == [present |-> TRUE, records |-> records]
BankPairs(sceneId, b, bank) ==
    IF bank.present
    THEN {<<bankBase(sceneId, BankSuffixes[b]) \o <<".tpfbhd">>,
            [kind |-> "bhd", fileRecords |-> bank.records]>>,
          <<bankBase(sceneId, BankSuffixes[b]) \o <<".tpfbdt">>, [kind |-> "bdt"]>>}
    ELSE {}

\* The manifest of a bulk archive: the placement table, model files, the four
\* banks, the loose container, and whatever else (extra) it holds.
ArcFiles(sceneId, models, modelFiles, banks, extra) ==
    MapOfPairs({<<msbPath(sceneId), MsbBuffer(models)>>,
                <<bankBase(sceneId, LooseSuffix) \o <<".tpf.dcx">>,
                  TpfDcxFile(<<Texture(<<"z">>)>>)>>}
               \cup modelFiles \cup extra
               \cup UNION {BankPairs(sceneId, b, banks[b]) : b \in 1..Len(BankSuffixes)})
Crg1(arcFiles) == [kind |-> "crg1", Files |-> arcFiles]

MtdLoose == [kind |-> "bnd3", from |-> "loose"]
MtdInArc == [kind |-> "bnd3", from |-> "archive"]

----------------------------------------------------------------------------
(* The Scene Aggregate: DKSRenderer and ModelHolder after construction.  A   *)
(* destroy call on a GPU resource is counted in destroyCalls and recorded in *)
(* the trace; a resource is released once destroy has been called on it.     *)

NoDestroy ==
    [helper |-> 0, sceneRenderers |-> EmptyMap, textureHolder |-> 0,
     modelHolder |-> 0, flverData |-> EmptyMap]

Count(m, k) == IF k \in DOMAIN m THEN m[k] ELSE 0

\* The effect of one destroy call, on d = [trace, calls].
DestroyOne(d, what) ==
    [trace |-> Append(d.trace, [op |-> "destroy", what |-> what]),
     calls |-> [d.calls EXCEPT ![what] = @ + 1]]
DestroyAt(d, what, i) ==
    [trace |-> Append(d.trace, [op |-> "destroy", what |-> what, index |-> i]),
     calls |-> [d.calls EXCEPT ![what] = MapSet(@, i, Count(@, i) + 1)]]

\* ModelHolder.destroy with the test of line 118 left out.
RECURSIVE Mutant_ModelHolder_destroyLoop(_, _, _)
Mutant_ModelHolder_destroyLoop(d, flverData, i) ==
    IF i > flverData.length THEN d
    ELSE Mutant_ModelHolder_destroyLoop(DestroyAt(d, "flverData", i), flverData, i + 1)

\* The loop of ModelHolder.destroy (lines 117-119), from index i.
RECURSIVE ModelHolder_destroyLoop(_, _, _)
ModelHolder_destroyLoop(d, flverData, i) ==
    IF i > flverData.length THEN d
    ELSE IF ArrayGet(flverData, i) # Undefined
         THEN ModelHolder_destroyLoop(DestroyAt(d, "flverData", i), flverData, i + 1)
         ELSE ModelHolder_destroyLoop(d, flverData, i + 1)

ModelHolder_destroy(d, flverData) ==
    ModelHolder_destroyLoop(DestroyOne(d, "modelHolder"), flverData, 1)

\* The loop of DKSRenderer.destroy (lines 100-101), from index i.
RECURSIVE destroySceneRenderers(_, _, _)
destroySceneRenderers(d, n, i) ==
    IF i > n THEN d
    ELSE destroySceneRenderers(DestroyAt(d, "sceneRenderers", i), n, i + 1)

\* DKSRenderer.destroy with the holders destroyed before the sub-scene renderers.
Mutant_DKSRenderer_destroy(sc, tr, calls) ==
    LET d0 == DestroyOne([trace |-> tr, calls |-> calls], "helper")
        d1 == DestroyOne(d0, "textureHolder")
        d2 == destroySceneRenderers(d1, sc.sceneRenderers, 1)
    IN ModelHolder_destroy(d2, sc.modelHolder)

\* DKSRenderer.destroy (lines 98-104) of the renderer held in sc.
DKSRenderer_destroy(sc, tr, calls) ==
    LET d0 == DestroyOne([trace |-> tr, calls |-> calls], "helper")
        d1 == destroySceneRenderers(d0, sc.sceneRenderers, 1)
        d2 == DestroyOne(d1, "textureHolder")
    IN ModelHolder_destroy(d2, sc.modelHolder)

\* DKSRenderer.addSceneRenderer (lines 88-91).
addSceneRenderer(sc) == [sc EXCEPT !.sceneRenderers = @ + 1]

\* new ModelHolder(device, flver) and new DKSRenderer(device, textureHolder,
\* modelHolder), as createScene makes them (lines 196 and 207).
NewDKSRenderer ==
    /\ ~scene.returned
    /\ LET st == newModelHolder([StartRun(trace) EXCEPT !.flver = scene.flver,
                                     !.textureHolder = scene.textureHolder], 1)
       IN /\ scene' = SceneOf([st EXCEPT !.returned = TRUE])
          /\ trace' = st.trace
    /\ UNCHANGED <<destroyCalls, files, dfVars, id, server, pcArc, pcLoose, pcMain>>

AddSceneRenderer ==
    /\ scene.returned
    /\ destroyCalls = NoDestroy
    /\ scene.sceneRenderers < MaxRenderers
    /\ scene' = addSceneRenderer(scene)
    /\ trace' = Append(trace, [op |-> "addSceneRenderer", index |-> scene.sceneRenderers + 1])
    /\ UNCHANGED <<destroyCalls, files, dfVars, id, server, pcArc, pcLoose, pcMain>>

\* destroy is called once: the owner of the renderer guards against a second call.
Destroy ==
    /\ scene.returned
    /\ destroyCalls = NoDestroy
    /\ LET d == DKSRenderer_destroy(scene, trace, destroyCalls)
       IN /\ trace' = d.trace
          /\ destroyCalls' = d.calls
    /\ UNCHANGED <<files, dfVars, loadVars>>

----------------------------------------------------------------------------
(* Specifications of the two classes on their own. *)

NoLoad ==
    /\ id = SceneId1
    /\ server = [arc |-> Undefined, mtd |-> Undefined]
    /\ pcArc = "idle" /\ pcLoose = "idle" /\ pcMain = "idle"
    /\ scene = NoScene
    /\ destroyCalls = NoDestroy

InitDF ==
    /\ fileProgressables = <<>>
    /\ progressMeter = NoMeter
    /\ abortSignal = FALSE
    /\ nFetchData = 0
    /\ nOnProgress = 0

InitRS ==
    /\ files = EmptyMap
    /\ trace = <<>>

InitClasses == InitRS /\ InitDF /\ NoLoad

NextRS == MountFile \/ MountCRG1 \/ LookupFile
SpecRS == InitClasses /\ [][NextRS]_vars

NextDF == FetchData \/ OnProgress \/ Resolve \/ Fail \/ Abort
SpecDF == InitClasses /\ [][NextDF]_vars

----------------------------------------------------------------------------
(* Specifications of a load. *)

InitLoad(worlds) ==
    /\ InitRS /\ InitDF
    /\ \E w \in worlds : id = w.id /\ server = w.server
    /\ pcArc = "idle" /\ pcLoose = "idle" /\ pcMain = "idle"
    /\ scene = NoScene
    /\ destroyCalls = NoDestroy

\* The scene of the end-to-end scenario: a model entry whose file has two
\* batches and an entry of another kind; four valid banks.
GoodModels == << [type |-> 0, flverPath |-> flverPath1], [type |-> 1, flverPath |-> flverPath2] >>
GoodModelFiles == {<<flverPath1, FlverFile(2, "A")>>}
GoodBanks == << Bank(<<RecOk, RecOkPath>>), Bank(<<>>), Bank(<<RecOkPath>>), Bank(<<RecOk>>) >>
BadBanks == << Bank(<<RecOk, RecOkPath>>), Bank(<<RecMismatch>>), Bank(<<RecOkPath>>), Bank(<<RecOk>>) >>

\* Spec: every interleaving of the downloads, their progress, their failure
\* and the abort signal, over a few archives.
ArcChoices(sceneId) ==
    {Crg1(ArcFiles(sceneId, GoodModels, GoodModelFiles, GoodBanks, {})),
     Crg1(ArcFiles(sceneId, GoodModels, GoodModelFiles, GoodBanks, {<<mtdPath, MtdInArc>>})),
     Crg1(ArcFiles(sceneId, GoodModels, GoodModelFiles, BadBanks, {})),
     Garbage}
Worlds ==
    UNION {{[id |-> i, server |-> [arc |-> a, mtd |-> m]] :
               a \in ArcChoices(i), m \in {MtdLoose, Garbage}} : i \in {SceneId1, SceneId2}}

Init == InitLoad(Worlds)
Next == CreateScene \/ OnProgress \/ ArcLoaded \/ LooseLoaded \/ FetchError \/ AbortLoad
Spec == Init /\ [][Next]_vars

\* SpecModels: every placement table of up to MaxModels entries, over model
\* files that are absent, malformed, without batches or with two batches.
ModelEntries ==
    {[type |-> 0, flverPath |-> flverPath1], [type |-> 0, flverPath |-> flverPath2],
     [type |-> 1, flverPath |-> flverPath1]}
ModelFileChoices(path, tag) ==
    {{}, {<<path, Garbage>>}, {<<path, FlverFile(0, tag)>>}, {<<path, FlverFile(2, tag)>>}}
ModelWorlds ==
    {[id |-> SceneId1,
      server |-> [arc |-> Crg1(ArcFiles(SceneId1, models, f1 \cup f2, GoodBanks, {})),
                  mtd |-> MtdLoose]] :
        models \in SeqsUpTo(ModelEntries, MaxModels),
        f1 \in ModelFileChoices(flverPath1, "A"),
        f2 \in ModelFileChoices(flverPath2, "B")}

NextLoad == CreateScene \/ ArcLoaded \/ LooseLoaded
InitModels == InitLoad(ModelWorlds)
SpecModels == InitModels /\ [][NextLoad]_vars

\* SpecTex: each of the four banks is missing, holds up to MaxRecords valid
\* records, or holds MaxRecords records of which one is invalid; the invalid
\* records of a load are invalid in the same way.  A second scene, of another
\* map group, is loaded with banks of valid records.
GoodRecordAt(k) == IF k % 2 = 1 THEN RecOk ELSE RecOkPath
GoodBankChoices == {Bank([k \in 1..n |-> GoodRecordAt(k)]) : n \in 0..MaxRecords}
BankChoices(bad) ==
    {AbsentBank}
    \cup GoodBankChoices
    \cup {Bank([k \in 1..MaxRecords |-> IF k = j THEN bad ELSE GoodRecordAt(k)]) :
             j \in 1..MaxRecords}
TexWorlds ==
    UNION {{[id |-> SceneId1,
             server |-> [arc |-> Crg1(ArcFiles(SceneId1, GoodModels, GoodModelFiles,
                                               <<b1, b2, b3, b4>>, {})),
                         mtd |-> MtdLoose]] :
               b1 \in BankChoices(bad), b2 \in BankChoices(bad),
               b3 \in BankChoices(bad), b4 \in BankChoices(bad)} : bad \in BadRecords}
    \cup {[id |-> SceneId2,
            server |-> [arc |-> Crg1(ArcFiles(SceneId2, GoodModels, GoodModelFiles,
                                              <<b1, b2, b3, b4>>, {})),
                        mtd |-> MtdLoose]] :
              b1 \in GoodBankChoices, b2 \in GoodBankChoices,
              b3 \in GoodBankChoices, b4 \in GoodBankChoices}

InitTex == InitLoad(TexWorlds)
SpecTex == InitTex /\ [][NextLoad]_vars

\* SpecAgg: a ModelHolder and a DKSRenderer made from every Model Slot Array of
\* up to MaxModels slots (holes anywhere) and a texture holder, sub-scene
\* renderers added, and one destroy.
Geometries == {FlverFile(2, "A").inner, FlverFile(1, "B").inner}
SlotArrays ==
    UNION {UNION {{[length |-> n, elems |-> e] : e \in [D -> Geometries]} :
                     D \in SUBSET (1..n)} : n \in 0..MaxModels}
InitAgg ==
    /\ InitRS /\ InitDF
    /\ id = SceneId1
    /\ server = [arc |-> Undefined, mtd |-> Undefined]
    /\ pcArc = "idle" /\ pcLoose = "idle" /\ pcMain = "idle"
    /\ \E a \in SlotArrays, t \in {<<>>, <<Texture(<<"x">>)>>} :
           scene = [NoScene EXCEPT !.flver = a, !.textureHolder = t]
    /\ destroyCalls = NoDestroy
NextAgg == NewDKSRenderer \/ AddSceneRenderer \/ Destroy
SpecAgg == InitAgg /\ [][NextAgg]_vars

----------------------------------------------------------------------------
(* Claims about the ResourceSystem (checked under SpecRS). *)

\* Whether trace event e mounts path p, and the buffer it mounts there.
Mounts(e, p) ==
    \/ e.op = "mountFile" /\ e.path = p
    \/ e.op = "mountCRG1" /\ p \in DOMAIN e.arc
MountedBuffer(e, p) == IF e.op = "mountFile" THEN e.buffer ELSE e.arc[p]

\* The positions before position m of the trace that mount p.
MountsBefore(p, m) == {k \in 1..(m - 1) : Mounts(trace[k], p)}
IsLastMountBefore(k, p, m) ==
    k \in MountsBefore(p, m) /\ \A j \in MountsBefore(p, m) : j <= k

\* C1: when the latest mount of p is a mountFile(p, b2) that came after an
\* earlier mount of p (by mountFile or by mountCRG1), whatever was mounted on
\* other paths in between, lookupFile(p) returns b2: now, and in every lookup
\* that was made since.
C1_LastWriteWins ==
    \A p \in RSPaths : \A m \in 2..(Len(trace) + 1) : \A k \in 1..(m - 1) :
        ( /\ IsLastMountBefore(k, p, m)
          /\ trace[k].op = "mountFile"
          /\ \E j \in MountsBefore(p, k) : TRUE )
        => /\ m = Len(trace) + 1 => lookupFile(files, p) = trace[k].buffer
           /\ (m <= Len(trace) /\ trace[m].op = "lookupFile" /\ trace[m].path = p)
                  => trace[m].ret = trace[k].buffer

\* C1 witness: p was mounted with b1, another path was mounted, p was mounted
\* again by mountFile with b2 # b1, and the lookup of p gives b2.
C1_Witness ==
    /\ Len(trace) = 3
    /\ \E p \in RSPaths :
        /\ Mounts(trace[1], p)
        /\ trace[2].op \in {"mountFile", "mountCRG1"} /\ ~Mounts(trace[2], p)
        /\ trace[3].op = "mountFile" /\ trace[3].path = p
        /\ trace[3].buffer # MountedBuffer(trace[1], p)
        /\ lookupFile(files, p) = trace[3].buffer

\* C2: a mountCRG1 step of manifest n, in whichever order the filenames are
\* enumerated, leaves the namespace with every filename of n mapped to n's
\* buffer for it and every other entry as it was.
C2_MountArchive ==
    [][ (Len(trace') = Len(trace) + 1 /\ Last(trace').op = "mountCRG1")
        => LET n == Last(trace').arc
           IN /\ DOMAIN files' = (DOMAIN files) \cup (DOMAIN n)
              /\ \A p \in DOMAIN files' :
                    files'[p] = IF p \in DOMAIN n THEN n[p] ELSE files[p] ]_vars

\* C2 witness: a manifest of two filenames was mounted over a namespace that
\* held one of them with another buffer and held a third path, which is kept.
C2_Witness ==
    /\ Len(trace) = 3
    /\ trace[1].op = "mountFile" /\ trace[2].op = "mountFile"
    /\ trace[1].path # trace[2].path
    /\ trace[3].op = "mountCRG1"
    /\ Cardinality(DOMAIN trace[3].arc) = 2
    /\ trace[1].path \notin DOMAIN trace[3].arc
    /\ trace[2].path \in DOMAIN trace[3].arc
    /\ trace[3].arc[trace[2].path] # trace[2].buffer
    /\ \A p \in DOMAIN trace[3].arc : lookupFile(files, p) = trace[3].arc[p]
    /\ lookupFile(files, trace[1].path) = trace[1].buffer

----------------------------------------------------------------------------
(* Claims about the DataFetcher (checked under SpecDF). *)

RECURSIVE SumProgress(_)
SumProgress(fps) == IF fps = <<>> THEN 0 ELSE Head(fps).progress + SumProgress(Tail(fps))

\* a <= b for two aggregates with positive denominators.
AggregateLeq(a, b) == a.num * b.den <= b.num * a.den

\* C3: the value last passed to the progress sink is the unweighted mean of the
\* current fractions of all registered tasks: (sum of k/Scale) / (number of tasks).
C3_ReportIsMean ==
    progressMeter.count > 0 =>
        /\ progressMeter.value.den > 0
        /\ progressMeter.value.num * (Scale * Len(fileProgressables))
               = SumProgress(fileProgressables) * progressMeter.value.den

\* C3 witness: three tasks at three different fractions, one of them terminated.
C3_Witness ==
    /\ Len(fileProgressables) = 3
    /\ progressMeter.count > 0
    /\ fileProgressables[1].progress = Scale
    /\ fileProgressables[2].progress = 0
    /\ fileProgressables[3].progress \notin {0, Scale}
    /\ \E i \in 1..3 : fileProgressables[i].state # "pending"

\* C4: a fetchData call made while a task is registered, whose new task is at
\* fraction 0, reports once, and what it reports is at most the aggregate
\* reported last before the call.
C4_RegisterCannotIncrease ==
    [][ ( /\ nFetchData' = nFetchData + 1
          /\ Len(fileProgressables) >= 1
          /\ Last(fileProgressables').progress = 0 )
        => /\ progressMeter'.count = progressMeter.count + 1
           /\ AggregateLeq(progressMeter'.value, progressMeter.value) ]_vars

\* C4 witness: task 1 reached a positive fraction and was cancelled; task 2 is
\* pending, so it was registered (at 0) after that, and the aggregate reported
\* for it is half of task 1's fraction.
C4_Witness ==
    /\ Len(fileProgressables) = 2
    /\ fileProgressables[1].state = "aborted"
    /\ fileProgressables[1].progress > 0
    /\ fileProgressables[2].state = "pending"
    /\ fileProgressables[2].progress = 0
    /\ progressMeter.value.num = fileProgressables[1].progress
    /\ progressMeter.value.den = Scale * 2

\* C5: the sink has been called once per fetchData call and once per progress
\* update delivered, in the step of that call or update.
C5_OneReportPerEvent == progressMeter.count = nFetchData + nOnProgress

\* C5 witness: two registrations and two progress updates, four reports.
C5_Witness ==
    /\ nFetchData = 2
    /\ nOnProgress = 2
    /\ progressMeter.count = 4

\* C6: the task list has one element per fetchData call and never shrinks; when
\* the abort signal fires every pending fetch is rejected; a terminated task
\* stays in the list as it was, and every later report counts its fraction.
C6_Step ==
    /\ Len(fileProgressables') >= Len(fileProgressables)
    /\ \A i \in 1..Len(fileProgressables) :
        /\ fileProgressables[i].state # "pending" => fileProgressables'[i] = fileProgressables[i]
        /\ (abortSignal' /\ ~abortSignal /\ fileProgressables[i].state = "pending")
              => /\ fileProgressables'[i].state = "aborted"
                 /\ fileProgressables'[i].progress = fileProgressables[i].progress
    /\ progressMeter'.count > progressMeter.count
          => /\ progressMeter'.value.num = SumProgress(fileProgressables')
             /\ progressMeter'.value.den = Scale * Len(fileProgressables')

C6_CancelledTasksStay ==
    /\ [](Len(fileProgressables) = nFetchData)
    /\ [][C6_Step]_vars

\* C6 witness: a task was cancelled at a positive fraction, a task was then
\* registered, and the aggregate reported for it counts the cancelled fraction.
C6_Witness ==
    /\ abortSignal
    /\ Len(fileProgressables) = 3
    /\ fileProgressables[1].state = "aborted" /\ fileProgressables[1].progress = 1
    /\ fileProgressables[2].state = "aborted" /\ fileProgressables[2].progress = 0
    /\ fileProgressables[3].state = "pending"
    /\ progressMeter.value = [num |-> 1, den |-> Scale * 3]

----------------------------------------------------------------------------
(* Claims about model resolution (checked under SpecModels). *)

\* Both downloads resolved, so the join has run lines 177-209.
Joined == pcArc = "done" /\ pcLoose = "done"

\* The placement table of the load and, for entry i, the file it refers to.
PlacementTable == MapGet(files, msbPath(id)).models
ModelFile(i) == MapGet(files, PlacementTable[i].flverPath)
IsModelKind(i) == PlacementTable[i].type = 0
Resolvable(i) == PlacementTable[i].flverPath \in DOMAIN files
Decodes(i) == Resolvable(i) /\ ModelFile(i).kind = "dcx" /\ ModelFile(i).inner.kind = "flver"
HasBatches(i) == Decodes(i) /\ ModelFile(i).inner.batches > 0

\* No model-kind entry refers to a file that is there but malformed.
NoMalformedModel ==
    \A i \in 1..Len(PlacementTable) : (IsModelKind(i) /\ Resolvable(i)) => Decodes(i)
SomeAbsentModel ==
    \E i \in 1..Len(PlacementTable) : IsModelKind(i) /\ ~Resolvable(i)

SlotsAsClaimed ==
    \A i \in 1..Len(PlacementTable) :
        ArrayGet(scene.flver, i) =
            IF IsModelKind(i) /\ HasBatches(i) THEN ModelFile(i).inner ELSE Undefined

\* C7: after model resolution, slot i of the Model Slot Array holds the geometry
\* decoded for entry i if entry i is model-kind, resolvable and has a batch, and
\* is absent otherwise (stated for tables none of whose model files is malformed).
C7_SlotsMatchEntries == (Joined /\ NoMalformedModel) => SlotsAsClaimed

\* What holds of the code: the same, once model resolution has run to its end.
C7_SlotsMatchWhenResolved ==
    (Joined /\ scene.error = NoError) => (SlotsAsClaimed /\ ~SomeAbsentModel)

\* C8: a model-kind entry whose file is absent from the namespace leaves its
\* slot empty and does not fail the load: with nothing else wrong, it is Ready.
C8_AbsentModelTolerated ==
    (Joined /\ SomeAbsentModel /\ NoMalformedModel) =>
        /\ pcMain = "ready"
        /\ \A i \in 1..Len(PlacementTable) :
              (IsModelKind(i) /\ ~Resolvable(i)) => ArrayGet(scene.flver, i) = Undefined

----------------------------------------------------------------------------
(* Claims about texture resolution (checked under SpecTex). *)

BankHeaderPath(b) == bankBase(id, BankSuffixes[b]) \o <<".tpfbhd">>
BankDataPath(b) == bankBase(id, BankSuffixes[b]) \o <<".tpfbdt">>
LoosePath == bankBase(id, LooseSuffix) \o <<".tpf.dcx">>
BankPresent(b) == BankHeaderPath(b) \in DOMAIN files /\ BankDataPath(b) \in DOMAIN files
BankRecords(b) == MapGet(files, BankHeaderPath(b)).fileRecords
RecordTextures(r) == r.buffer.inner.textures

\* The three checks of a Texture Bank Record, as the claim words them.
FailsValidation(r) ==
    \/ ~endsWith(r.name, TpfDcx)
    \/ Len(RecordTextures(r)) # 1
    \/ key1Of(r.name) # toLowerCase(RecordTextures(r)[1].name)

\* Record j of bank b is the first record, in bank order, to fail validation.
IsFirstFailure(b, j) ==
    /\ \A c \in 1..b : BankPresent(c)
    /\ j \in 1..Len(BankRecords(b))
    /\ FailsValidation(BankRecords(b)[j])
    /\ \A k \in 1..(j - 1) : ~FailsValidation(BankRecords(b)[k])
    /\ \A c \in 1..(b - 1) : \A k \in 1..Len(BankRecords(c)) : ~FailsValidation(BankRecords(c)[k])

\* A trace event that belongs to a record from j of bank b on, to a later bank
\* or to the loose container.
IsAtOrAfter(e, b, j) ==
    \/ /\ e.op = "lookupFile"
       /\ \/ e.path = LoosePath
          \/ \E c \in (b + 1)..Len(BankSuffixes) : e.path \in {BankHeaderPath(c), BankDataPath(c)}
    \/ /\ e.op = "addTextures"
       /\ \/ e.base = bankBase(id, LooseSuffix)
          \/ e.base = bankBase(id, BankSuffixes[b]) /\ e.record >= j
          \/ \E c \in (b + 1)..Len(BankSuffixes) : e.base = bankBase(id, BankSuffixes[c])

\* C9: when record j of bank b is the first to fail validation, the load is
\* rejected at that record: nothing of that record or after it (the rest of the
\* bank, the later banks, the loose container) is looked up or registered, and
\* no scene is returned.
C9_AbortAtFailedRecord ==
    Joined =>
        \A b \in 1..Len(BankSuffixes) : \A j \in 1..(MaxRecords + 1) :
            IsFirstFailure(b, j) =>
                /\ pcMain = "rejected"
                /\ ~scene.returned
                /\ scene.sceneRenderers = 0
                /\ scene.error.at \in {"assert suffix", "assert one texture", "assert names"}
                /\ scene.error.base = bankBase(id, BankSuffixes[b])
                /\ scene.error.record = j
                /\ \A k \in 1..Len(trace) : ~IsAtOrAfter(trace[k], b, j)

\* C9 witness: bank 0000 registered its records, record 1 of bank 0001 has a
\* name that differs from its texture's, a record follows it and bank 0002 has
\* records; the load is rejected with only bank 0000's textures registered.
C9_Witness ==
    /\ Joined
    /\ IsFirstFailure(2, 1)
    /\ BankRecords(2)[1] = RecMismatch
    /\ Len(BankRecords(2)) >= 2
    /\ Len(BankRecords(1)) >= 1
    /\ BankPresent(3) /\ Len(BankRecords(3)) >= 1
    /\ pcMain = "rejected"
    /\ Len(scene.textureHolder) = Len(BankRecords(1))

----------------------------------------------------------------------------
(* Claims about the join of the two downloads (checked under Spec). *)

FetchFailed(i) ==
    Len(fileProgressables) >= i /\ fileProgressables[i].state \in {"rejected", "aborted"}

\* A trace event of lines 177-209: a decode of the placement table, of the
\* material container, of a model, of a bank or of a texture container, a GPU
\* resource, a texture registration.
IsAfterJoinEvent(e) ==
    \/ e.op \in {"addTextures", "new FLVERData", "new MSBRenderer"}
    \/ e.op = "decode" /\ e.what \in {"MSB", "BND3", "FLVER", "BHD", "TPF"}

\* C10: once one of the two phase-1 downloads has failed, whatever the other
\* one does and in whichever order, createScene is rejected and nothing of
\* lines 177-209 has run or will run: no scene is returned.
C10_FetchFailureRejects ==
    (FetchFailed(ArcTask) \/ FetchFailed(LooseTask)) =>
        /\ pcMain = "rejected"
        /\ scene.error = [at |-> "fetch"]
        /\ ~scene.returned
        /\ scene.flver = EmptyArray /\ scene.modelHolder = EmptyArray
        /\ scene.textureHolder = <<>> /\ scene.sceneRenderers = 0
        /\ \A k \in 1..Len(trace) : ~IsAfterJoinEvent(trace[k])

\* C10 witness: the material-definition download failed and the archive
\* download resolved and was mounted; the load is rejected.
C10_Witness ==
    /\ FetchFailed(LooseTask)
    /\ fileProgressables[ArcTask].state = "resolved"
    /\ pcArc = "done"
    /\ \E k \in 1..Len(trace) : trace[k].op = "mountCRG1"
    /\ msbPath(id) \in DOMAIN files
    /\ pcMain = "rejected"

----------------------------------------------------------------------------
(* Claims about the Scene Aggregate (checked under SpecAgg). *)

DestroyEvents == SelectSeq(trace, LAMBDA e : e.op = "destroy")
Destroyed == destroyCalls # NoDestroy
IsHolderEvent(e) == e.what \in {"textureHolder", "modelHolder", "flverData"}
PresentSlots(a) == {i \in 1..a.length : ArrayGet(a, i) # Undefined}

\* C11: once destroy() has returned, its destroy calls were made in this order:
\* every registered sub-scene renderer, in registration order and once each,
\* then the texture holder, then the model holder; no holder was destroyed
\* before a sub-scene renderer, and all three kinds of resource are released.
C11_DestroyOrder ==
    Destroyed =>
        LET D == DestroyEvents
            R == SelectSeq(D, LAMBDA e : e.what = "sceneRenderers")
        IN /\ Len(R) = scene.sceneRenderers
           /\ \A i \in 1..Len(R) : R[i].index = i
           /\ \A i, j \in 1..Len(D) :
                 /\ (D[i].what = "sceneRenderers" /\ IsHolderEvent(D[j])) => i < j
                 /\ (D[i].what = "textureHolder" /\ D[j].what \in {"modelHolder", "flverData"})
                       => i < j
           /\ \A i \in 1..scene.sceneRenderers : Count(destroyCalls.sceneRenderers, i) = 1
           /\ destroyCalls.textureHolder = 1
           /\ destroyCalls.modelHolder = 1
           /\ \A i \in PresentSlots(scene.modelHolder) : Count(destroyCalls.flverData, i) = 1

\* C11 witness: a renderer with two sub-scene renderers, a texture and a model
\* holder with a GPU resource has been destroyed.
C11_Witness ==
    /\ Destroyed
    /\ scene.sceneRenderers = 2
    /\ scene.textureHolder # <<>>
    /\ PresentSlots(scene.modelHolder) # {}
    /\ Len(DestroyEvents) >= 5

\* C16: the ModelHolder made from a Model Slot Array has a GPU resource at index
\* i exactly when slot i is present, made from that slot, one resource created
\* per present slot; ModelHolder.destroy destroys each of them exactly once and
\* calls destroy at no other index.
C16_HolderIndexAligned ==
    scene.returned =>
        LET created == SelectSeq(trace, LAMBDA e : e.op = "new FLVERData")
        IN /\ PresentSlots(scene.modelHolder) = PresentSlots(scene.flver)
           /\ \A i \in PresentSlots(scene.flver) :
                 ArrayGet(scene.modelHolder, i) = ArrayGet(scene.flver, i)
           /\ Len(created) = Cardinality(PresentSlots(scene.flver))
           /\ {created[k].model : k \in 1..Len(created)} = PresentSlots(scene.flver)
           /\ Destroyed =>
                 /\ DOMAIN destroyCalls.flverData = PresentSlots(scene.flver)
                 /\ \A i \in PresentSlots(scene.flver) : destroyCalls.flverData[i] = 1

\* C16 witness: a slot array with slot 1 absent and slot 2 present was given;
\* the holder has one resource, at index 2, and it has been destroyed.
C16_Witness ==
    /\ scene.returned
    /\ Destroyed
    /\ scene.flver.length = 2
    /\ PresentSlots(scene.flver) = {2}
    /\ PresentSlots(scene.modelHolder) = {2}
    /\ destroyCalls.flverData[2] = 1

----------------------------------------------------------------------------
(* Claims about the order of texture registration (checked under SpecTex). *)

\* A texture path of the load's map group, spelt out from the scene id.
MapGroupPath(suffix, ext) ==
    <<"/map/", id[1], id[2], id[3], "/", id[1], id[2], id[3], suffix, ext>>

IsTextureLookup(e) ==
    e.op = "lookupFile" /\ e.path \notin {msbPath(id), mtdPath, flverPath1, flverPath2}
TextureLookups == SelectSeq(trace, IsTextureLookup)
Registrations == SelectSeq(trace, LAMBDA e : e.op = "addTextures")

\* What bank b registers when every record of it is registered in record order.
BankRegistrations(b) ==
    [k \in 1..Len(BankRecords(b)) |->
        [op |-> "addTextures", base |-> bankBase(id, BankSuffixes[b]), record |-> k,
         textures |-> RecordTextures(BankRecords(b)[k])]]

\* C12: in a load that succeeded, the lookups for textures are the header and
\* the data of bank 0000, 0001, 0002, 0003 in this order (four bank lookups)
\* and then the one loose container 9999, all under the first 3 characters of
\* the scene id; the registrations are those of bank 0000 to 0003, each bank's
\* records in record order, and the loose container's after all of them.
C12_RegistrationOrder ==
    pcMain = "ready" =>
        /\ [k \in 1..Len(TextureLookups) |-> TextureLookups[k].path]
              = << MapGroupPath("_0000", ".tpfbhd"), MapGroupPath("_0000", ".tpfbdt"),
                   MapGroupPath("_0001", ".tpfbhd"), MapGroupPath("_0001", ".tpfbdt"),
                   MapGroupPath("_0002", ".tpfbhd"), MapGroupPath("_0002", ".tpfbdt"),
                   MapGroupPath("_0003", ".tpfbhd"), MapGroupPath("_0003", ".tpfbdt"),
                   MapGroupPath("_9999", ".tpf.dcx") >>
        /\ SubSeq(Registrations, 1, Len(Registrations) - 1)
              = BankRegistrations(1) \o BankRegistrations(2)
                    \o BankRegistrations(3) \o BankRegistrations(4)
        /\ Last(Registrations).base = bankBase(id, LooseSuffix)
        /\ Last(Registrations).textures = MapGet(files, LoosePath).inner.textures
        /\ \A i, j \in 1..Len(Registrations) :
              (Registrations[i].base = bankBase(id, LooseSuffix)
               /\ Registrations[j].base # bankBase(id, LooseSuffix)) => j < i

\* C12 witness: the scene m12_00_00_01 was loaded, with two records in bank
\* 0000 and records in banks 0001 and 0003; five or more registrations.
C12_Witness ==
    /\ pcMain = "ready"
    /\ id = SceneId2
    /\ Len(BankRecords(1)) = 2
    /\ Len(BankRecords(2)) >= 1
    /\ Len(BankRecords(4)) >= 1
    /\ Len(Registrations) >= 5
    /\ TextureLookups[1].path = <<"/map/", "m", "1", "2", "/", "m", "1", "2", "_0000", ".tpfbhd">>

----------------------------------------------------------------------------
(* Claims about the two downloads and the phases of a load (checked under Spec). *)

Completed(i) == Len(fileProgressables) >= i /\ fileProgressables[i].state # "pending"
IsDecode(e) == e.op = "decode"
IsMount(e) == e.op \in {"mountFile", "mountCRG1"}

\* C13: until both phase-1 downloads have completed, no decoder has been
\* invoked and nothing has been written to the namespace.
C13_NothingBeforeBothFetched ==
    ~(Completed(ArcTask) /\ Completed(LooseTask)) =>
        /\ files = EmptyMap
        /\ \A k \in 1..Len(trace) : ~IsDecode(trace[k]) /\ ~IsMount(trace[k])

\* C17: once both downloads have been mounted, in whichever order they
\* completed, lookupFile('mtd/Mtd.mtdbnd') returns the buffer that was fetched
\* separately, also when the archive's manifest has an entry of that path; so
\* does the lookup that line 183 made.
C17_MtdIsLooseBuffer ==
    Joined =>
        /\ lookupFile(files, mtdPath) = server.mtd
        /\ \A k \in 1..Len(trace) :
              (trace[k].op = "lookupFile" /\ trace[k].path = mtdPath)
                  => trace[k].ret = server.mtd

IsUpload(e) == e.op \in {"new FLVERData", "addTextures", "new MSBRenderer"}
IsDecodeOrResolve(e) == e.op \in {"decode", "lookupFile"}
LoadFailure ==
    FetchFailed(ArcTask) \/ FetchFailed(LooseTask) \/ scene.error # NoError

\* C14: a load is Idle, Fetching, Decoding, Resolving, Uploading or Ready, or
\* Failed; all decode and resolve work (lookups and decodes, those of the
\* textures included) comes before any GPU upload step; a fetch or assertion
\* failure makes the load Failed, and a Failed load is not Ready.
C14_ForwardThroughStates ==
    /\ pcMain \in {"idle", "await", "ready", "rejected"}
    /\ \A i, j \in 1..Len(trace) :
          i < j => ~(IsUpload(trace[i]) /\ IsDecodeOrResolve(trace[j]))
    /\ LoadFailure => pcMain = "rejected"
    /\ pcMain = "ready" => (~LoadFailure /\ scene.returned)

\* The step of the load that a trace event belongs to, in the order of the
\* code: 1 the downloads and their mounts, 2 the placement table and the
\* material container, 3 model resolution, 4 the model holder, 5 texture
\* resolution and registration, 6 the sub-scene renderer.
StepOf(e) ==
    IF e.op \in {"fetchData", "mountFile", "mountCRG1"} THEN 1
    ELSE IF e.op = "decode"
         THEN (IF e.what = "BYML" THEN 1
               ELSE IF e.what \in {"MSB", "BND3"} THEN 2
               ELSE IF e.what = "FLVER" THEN 3 ELSE 5)
    ELSE IF e.op = "lookupFile"
         THEN (IF e.path \in {msbPath(id), mtdPath} THEN 2
               ELSE IF e.path \in {flverPath1, flverPath2} THEN 3 ELSE 5)
    ELSE IF e.op = "new FLVERData" THEN 4
    ELSE IF e.op = "addTextures" THEN 5
    ELSE 6

C14_Step ==
    /\ pcMain = "idle" => pcMain' \in {"idle", "await"}
    /\ pcMain = "await" => pcMain' \in {"await", "ready", "rejected"}
    /\ pcMain \in {"ready", "rejected"} =>
          (pcMain' = pcMain /\ scene' = scene /\ nFetchData' = nFetchData)

\* C14 as amended: a load moves only forward through Idle, Fetching, the steps
\* after the join in the order of the code (tables decoded, models resolved,
\* GPU model holder made, then textures resolved and registered bank by bank,
\* then the sub-scene renderer), and Ready; GPU upload of the models comes
\* before texture resolution.  A fetch, decode or assertion failure makes the
\* load Failed; Failed and Ready are terminal, with no retry.
C14_ForwardInCodeOrder ==
    /\ [](/\ \A i, j \in 1..Len(trace) : i < j => StepOf(trace[i]) <= StepOf(trace[j])
          /\ LoadFailure => pcMain = "rejected"
          /\ pcMain = "ready" => (~LoadFailure /\ scene.returned))
    /\ [][C14_Step]_vars

\* C14 witness: a load that is Ready, in which a GPU model resource was made,
\* then a texture was registered, then a texture container was decoded.
C14_Witness ==
    /\ pcMain = "ready"
    /\ \E i, j, k \in 1..Len(trace) :
          /\ i < j /\ j < k
          /\ trace[i].op = "new FLVERData"
          /\ trace[j].op = "addTextures"
          /\ trace[k].op = "decode" /\ trace[k].what = "TPF"

BothResolved ==
    /\ Len(fileProgressables) >= LooseTask
    /\ fileProgressables[ArcTask].state = "resolved"
    /\ fileProgressables[LooseTask].state = "resolved"
InputsValid ==
    /\ server.mtd = MtdLoose
    /\ server.arc \in {Crg1(ArcFiles(id, GoodModels, GoodModelFiles, GoodBanks, extra)) :
                          extra \in {{}, {<<mtdPath, MtdInArc>>}}}

C18_Step ==
    /\ (~abortSignal /\ abortSignal' /\ BothResolved) =>
          /\ pcMain' = pcMain /\ scene' = scene
          /\ files' = files /\ trace' = trace
          /\ progressMeter' = progressMeter /\ fileProgressables' = fileProgressables
    /\ (pcMain = "await" /\ BothResolved') =>
          /\ pcMain' \in {"ready", "rejected"}
          /\ progressMeter' = progressMeter
          /\ abortSignal' = abortSignal

\* C18: the step in which the second download resolves runs lines 177-209 to
\* their end (the load is Ready or Failed after it), with no progress report
\* and no look at the signal; a step in which the signal fires after both
\* downloads have resolved changes nothing of the load; so a load whose inputs
\* are all valid is Ready once both have resolved, signal or no signal.
C18_AbortAfterJoinNoEffect ==
    /\ []((BothResolved /\ InputsValid) => (pcMain = "ready" /\ scene.returned))
    /\ [][C18_Step]_vars

\* C18 witness: a load of valid inputs is Ready and the signal has fired, after
\* both downloads had resolved.
C18_Witness ==
    /\ abortSignal
    /\ BothResolved
    /\ InputsValid
    /\ pcMain = "ready"
    /\ scene.returned

----------------------------------------------------------------------------
(* Further claims about the ResourceSystem (checked under SpecRS). *)

\* What a lookup of p at position m of the trace is to return: the buffer of
\* the latest mount of p before m, or undefined when p was never mounted.
LatestMount(p, m) ==
    IF MountsBefore(p, m) = {} THEN Undefined
    ELSE LET k == CHOOSE x \in MountsBefore(p, m) : IsLastMountBefore(x, p, m)
         IN MountedBuffer(trace[k], p)

C15_Step ==
    /\ \A p \in DOMAIN files : p \in DOMAIN files'
    /\ (Len(trace') = Len(trace) + 1 /\ Last(trace').op = "lookupFile") => files' = files

\* C15: no step removes a path from the namespace and a lookupFile step leaves
\* the namespace as it is; every lookupFile of a path that was mounted before
\* it returned the buffer of the latest mount of that path, and every
\* lookupFile of a path never mounted returned undefined (no error).
C15_LookupPureNoEviction ==
    /\ [](/\ \A m \in 1..Len(trace) :
                trace[m].op = "lookupFile" => trace[m].ret = LatestMount(trace[m].path, m)
          /\ \A p \in RSPaths :
                /\ p \in DOMAIN files <=> MountsBefore(p, Len(trace) + 1) # {}
                /\ lookupFile(files, p) = LatestMount(p, Len(trace) + 1))
    /\ [][C15_Step]_vars

\* C15 witness: a path was mounted, a path never mounted was looked up and gave
\* undefined, and the mounted path was looked up and gave its buffer.
C15_Witness ==
    /\ Len(trace) = 3
    /\ IsMount(trace[1])
    /\ trace[2].op = "lookupFile" /\ ~Mounts(trace[1], trace[2].path)
    /\ trace[2].ret = Undefined
    /\ trace[3].op = "lookupFile" /\ Mounts(trace[1], trace[3].path)
    /\ trace[3].ret = MountedBuffer(trace[1], trace[3].path)
    /\ trace[3].ret # Undefined

----------------------------------------------------------------------------
(* Further claims about texture resolution (checked under SpecTex). *)

IsBankBase(base) == \E b \in 1..Len(BankSuffixes) : base = bankBase(id, BankSuffixes[b])
BankOf(base) == CHOOSE b \in 1..Len(BankSuffixes) : base = bankBase(id, BankSuffixes[b])
RegistrationsOf(b, k) ==
    {n \in 1..Len(Registrations) :
        /\ Registrations[n].base = bankBase(id, BankSuffixes[b])
        /\ Registrations[n].record = k}

\* C19: every registration made from a split bank is that of a record of the
\* bank that passes the three checks, and it registers the one texture of that
\* record; a record that fails a check has no registration; no record is
\* registered twice, and in a load that succeeded every record is registered
\* exactly once.
C19_RegisteredOnlyIfValid ==
    /\ \A n \in 1..Len(Registrations) :
          IsBankBase(Registrations[n].base) =>
              LET b == BankOf(Registrations[n].base)
                  k == Registrations[n].record
              IN /\ BankPresent(b)
                 /\ k \in 1..Len(BankRecords(b))
                 /\ ~FailsValidation(BankRecords(b)[k])
                 /\ Len(Registrations[n].textures) = 1
                 /\ Registrations[n].textures = RecordTextures(BankRecords(b)[k])
    /\ \A b \in 1..Len(BankSuffixes) :
          BankPresent(b) =>
              \A k \in 1..Len(BankRecords(b)) :
                  /\ Cardinality(RegistrationsOf(b, k)) <= 1
                  /\ FailsValidation(BankRecords(b)[k]) => RegistrationsOf(b, k) = {}
                  /\ pcMain = "ready" => Cardinality(RegistrationsOf(b, k)) = 1

\* C19 witness: record 1 of bank 0000 passed and was registered, record 2 has
\* two textures and was not; nothing else was registered.
C19_Witness ==
    /\ Joined
    /\ IsFirstFailure(1, 2)
    /\ BankRecords(1)[2] = RecTwoTextures
    /\ Len(Registrations) = 1
    /\ Registrations[1].record = 1
    /\ Len(scene.textureHolder) = 1

----------------------------------------------------------------------------
(* Further claims about the DataFetcher (checked under SpecDF). *)

C20_Step ==
    progressMeter'.count > progressMeter.count =>
        /\ Len(fileProgressables') >= 1
        /\ progressMeter'.value.den = Scale * Len(fileProgressables')

\* C20: every report to the sink is made while at least one task is
\* registered, so the aggregate reported was never a quotient by zero.
C20_NoReportWithoutTasks ==
    /\ [](progressMeter.count > 0 =>
             (Len(fileProgressables) >= 1 /\ progressMeter.value.den > 0))
    /\ [][C20_Step]_vars

\* C20 witness: the first report, made by the first fetchData call: one task,
\* aggregate 0/1.
C20_Witness ==
    /\ nFetchData = 1
    /\ nOnProgress = 0
    /\ progressMeter.count = 1
    /\ Len(fileProgressables) = 1
    /\ progressMeter.value = [num |-> 0, den |-> Scale]

====
